---------------------------- MODULE Spec2Model ----------------------------
(***************************************************************************)
(* Person CRUD service: the person table and its id sequence               *)
(* (database.py), the scoped connection manager get_db_connection          *)
(* (database.py), and the HTTP handlers with their route table (api.py).   *)
(*                                                                         *)
(* A row is the tuple <<id, name, age, gender>> the driver returns         *)
(* (p[0]..p[3] in the source are row[1]..row[4] here); None is <<>>.       *)
(* A name is the tuple of its characters, so that lower() and substring    *)
(* containment are computed rather than assumed.                           *)
(*                                                                         *)
(* Four specifications share the store:                                    *)
(*   Spec      the repository operations, called one after the other       *)
(*   SpecHttp  HTTP requests dispatched through the route table, one at a  *)
(*             time                                                        *)
(*   SpecConn  one repository operation at a time, get_db_connection       *)
(*             stepped through connect / body / except / finally           *)
(*   SpecConc  concurrent HTTP requests, interleaved between the           *)
(*             repository calls of each handler                            *)
(***************************************************************************)
EXTENDS Integers, Sequences, FiniteSets, TLC

VARIABLES
    table,      \* rows of table person, in storage order
    seq,        \* last value handed out by the id column's sequence
    last,       \* Spec: the last repository call and what it returned
    nSeeded,    \* Spec: rows inserted by init_db, all runs together
    nCreated,   \* Spec: rows inserted by successful create_person calls
    nDeleted,   \* Spec: rows removed by delete_person calls
    nRestarts,  \* Spec: init_db runs after the first
    req,        \* SpecHttp: the last request
    resp,       \* SpecHttp: the response to it
    mgr,        \* SpecConn: the running use of get_db_connection
    conns,      \* SpecConn: state of every connection ever opened
    nCalls,     \* SpecConn: operations started
    procs,      \* SpecConc: each request handler's position and locals
    nReqs       \* SpecConc: requests started

storeVars == <<table, seq>>
repoVars  == <<last, nSeeded, nCreated, nDeleted, nRestarts>>
httpVars  == <<req, resp>>
connVars  == <<mgr, conns, nCalls>>
concVars  == <<procs, nReqs>>
vars      == <<table, seq, last, nSeeded, nCreated, nDeleted, nRestarts,
               req, resp, mgr, conns, nCalls, procs, nReqs>>

-----------------------------------------------------------------------------
(* Bounds *)

MaxSeq == 2        \* the id sequence is not advanced past this value
MaxRestarts == 1   \* init_db runs after the first
MaxCalls == 3      \* SpecConn: operations run through the manager
NumProcs == 2      \* SpecConc: concurrent request handlers
MaxReqs == 3       \* SpecConc: requests started in all

-----------------------------------------------------------------------------
(* Data *)

None == <<>>

JohnDoe      == <<"J","o","h","n"," ","D","o","e">>
JaneSmith    == <<"J","a","n","e"," ","S","m","i","t","h">>
AliceJohnson == <<"A","l","i","c","e"," ","J","o","h","n","s","o","n">>
BobBrown     == <<"B","o","b"," ","B","r","o","w","n">>

\* The VALUES list of init_db's INSERT.
SampleRows ==
    << <<1, JohnDoe, 30, "M">>,
       <<2, JaneSmith, 25, "F">>,
       <<3, AliceJohnson, 28, "F">>,
       <<4, BobBrown, 35, "M">> >>

SampleIds == {SampleRows[i][1] : i \in 1..Len(SampleRows)}

\* Request bodies (PersonCreate / PersonUpdate) the clients send.
Payloads ==
    { [name |-> <<"J","o">>, age |-> 41, gender |-> "M"],
      [name |-> <<"a","n","n">>, age |-> 19, gender |-> "X"] }

\* Ids the clients ask for: two sample rows' (the first two the sequence
\* hands out), and 999, which no row has.
Ids == {1, 2, 999}

\* Names the clients look up: a sample row's and the request bodies'.
Names == {JohnDoe} \cup {p.name : p \in Payloads}

-----------------------------------------------------------------------------
(* The store: table person and the sequence behind its SERIAL id *)

HasId(t, id) == \E i \in 1..Len(t) : t[i][1] = id

\* cur.fetchone(): the first row of the result, None when there is none.
fetchone(rows) == IF rows = <<>> THEN None ELSE Head(rows)

RECURSIVE InsertSamples(_, _)
\* INSERT ... VALUES (rows) ON CONFLICT (id) DO NOTHING: each row of the
\* list is inserted unless a row with its id is there.
InsertSamples(t, rows) ==
    IF rows = <<>> THEN t
    ELSE IF HasId(t, Head(rows)[1]) THEN InsertSamples(t, Tail(rows))
         ELSE InsertSamples(Append(t, Head(rows)), Tail(rows))

\* init_db: CREATE TABLE IF NOT EXISTS, then the sample rows with their
\* explicit ids.  An explicit id does not touch the sequence.
init_db(t, s) ==
    [table |-> InsertSamples(t, SampleRows), seq |-> s,
     ret |-> None, err |-> "none",
     rowcount |-> Len(InsertSamples(t, SampleRows)) - Len(t)]

get_all_persons(t, s) ==
    [table |-> t, seq |-> s, ret |-> t, err |-> "none", rowcount |-> Len(t)]

get_person_by_id(t, s, person_id) ==
    LET IdIs(r) == r[1] = person_id
        rows == SelectSeq(t, IdIs)
    IN [table |-> t, seq |-> s, ret |-> fetchone(rows), err |-> "none",
        rowcount |-> Len(rows)]

get_person_by_name(t, s, name) ==
    LET NameIs(r) == r[2] = name
        rows == SelectSeq(t, NameIs)
    IN [table |-> t, seq |-> s, ret |-> fetchone(rows), err |-> "none",
        rowcount |-> Len(rows)]

\* INSERT INTO person (name, age, gender) ... RETURNING id: the id is the
\* sequence's next value.  The sequence advances whether or not the insert
\* goes through; a row holding that id already makes the primary key reject
\* the insert (psycopg2.errors.UniqueViolation) and nothing is returned.
create_person(t, s, name, age, gender) ==
    LET person_id == s + 1
    IN IF HasId(t, person_id)
       THEN [table |-> t, seq |-> person_id, ret |-> None,
             err |-> "UniqueViolation", rowcount |-> 0]
       ELSE [table |-> Append(t, <<person_id, name, age, gender>>),
             seq |-> person_id, ret |-> person_id, err |-> "none",
             rowcount |-> 1]

\* update_person written as an upsert: an absent id gets a row.
update_person_upsert(t, s, person_id, name, age, gender) ==
    [table |-> IF HasId(t, person_id)
               THEN [i \in 1..Len(t) |->
                       IF t[i][1] = person_id
                       THEN <<t[i][1], name, age, gender>> ELSE t[i]]
               ELSE Append(t, <<person_id, name, age, gender>>),
     seq |-> s, ret |-> None, err |-> "none", rowcount |-> 1]

\* update_person without its WHERE clause: every row is overwritten.
update_person_no_where(t, s, person_id, name, age, gender) ==
    [table |-> [i \in 1..Len(t) |-> <<t[i][1], name, age, gender>>],
     seq |-> s, ret |-> None, err |-> "none", rowcount |-> Len(t)]

\* UPDATE person SET name, age, gender WHERE id = person_id.
update_person(t, s, person_id, name, age, gender) ==
    [table |-> [i \in 1..Len(t) |->
                  IF t[i][1] = person_id
                  THEN <<t[i][1], name, age, gender>> ELSE t[i]],
     seq |-> s, ret |-> None, err |-> "none",
     rowcount |-> Cardinality({i \in 1..Len(t) : t[i][1] = person_id})]

\* delete_person without its conn.commit(): closing the connection discards
\* the DELETE.
delete_person_no_commit(t, s, person_id) ==
    [table |-> t, seq |-> s, ret |-> None, err |-> "none",
     rowcount |-> Cardinality({i \in 1..Len(t) : t[i][1] = person_id})]

\* DELETE FROM person WHERE id = person_id.
delete_person(t, s, person_id) ==
    LET IdIsNot(r) == r[1] # person_id
    IN [table |-> SelectSeq(t, IdIsNot), seq |-> s, ret |-> None,
        err |-> "none",
        rowcount |-> Len(t) - Len(SelectSeq(t, IdIsNot))]

-----------------------------------------------------------------------------
(* Spec: the repository operations, one call after the other *)

\* What a call was given: the id and the fields it takes (0, "" where it
\* takes none).
Args(person_id, name, age, gender) ==
    [person_id |-> person_id, name |-> name, age |-> age, gender |-> gender]

NoArgs == Args(0, <<>>, 0, "")

NoCall == [op |-> "none", args |-> NoArgs, row |-> None, rows |-> <<>>,
           id |-> 0, err |-> "none", rowcount |-> 0]

\* The record of a call: row is what a fetchone() lookup returned, rows what
\* get_all_persons returned, id what create_person returned (0: nothing).
Called(op, args, r) ==
    [op |-> op, args |-> args,
     row |-> IF op \in {"get_person_by_id", "get_person_by_name"}
             THEN r.ret ELSE None,
     rows |-> IF op = "get_all_persons" THEN r.ret ELSE <<>>,
     id |-> IF op = "create_person" /\ r.err = "none" THEN r.ret ELSE 0,
     err |-> r.err, rowcount |-> r.rowcount]

IdleHttp == /\ req = [method |-> "none", path |-> <<>>, query |-> <<>>,
                      body |-> <<>>]
            /\ resp = [status |-> 0, handler |-> "none",
                       body |-> [detail |-> ""]]


\* No with block is running.
IdleMgr ==
    [pc |-> "idle", op |-> "none", args |-> NoArgs, fault |-> "none",
     conn |-> 0, thrown |-> "none", exc |-> "none", raised |-> "none",
     log |-> <<>>,
     pending |-> <<>>, connsBefore |-> 0, tableBefore |-> <<>>]

IdleConn ==
    /\ mgr = IdleMgr
    /\ conns = <<>>
    /\ nCalls = 0

NoPayload == [name |-> <<>>, age |-> 0, gender |-> ""]

\* A worker between two requests.
IdleProc ==
    [pc |-> "idle", method |-> "none", person_id |-> 0, person |-> NoPayload,
     status |-> 0, error |-> "none", row |-> <<>>, rowcount |-> 0]

IdleConc ==
    /\ procs = [p \in 1..NumProcs |-> IdleProc]
    /\ nReqs = 0

\* The store as the first init_db (api.py, at import) leaves it.
InitStore ==
    /\ table = init_db(<<>>, 0).table
    /\ seq = init_db(<<>>, 0).seq

Init ==
    /\ InitStore
    /\ last = Called("init_db", NoArgs, init_db(<<>>, 0))
    /\ nSeeded = init_db(<<>>, 0).rowcount
    /\ nCreated = 0
    /\ nDeleted = 0
    /\ nRestarts = 0
    /\ IdleHttp /\ IdleConn /\ IdleConc

\* The service is started again: api.py runs init_db at import.
InitDb ==
    /\ nRestarts < MaxRestarts
    /\ \E r \in {init_db(table, seq)} :
          /\ table' = r.table
          /\ seq' = r.seq
          /\ last' = Called("init_db", NoArgs, r)
          /\ nSeeded' = nSeeded + r.rowcount
    /\ nRestarts' = nRestarts + 1
    /\ UNCHANGED <<nCreated, nDeleted, httpVars, connVars, concVars>>

GetAllPersons ==
    /\ last' = Called("get_all_persons", NoArgs,
                      get_all_persons(table, seq))
    /\ UNCHANGED <<storeVars, nSeeded, nCreated, nDeleted, nRestarts,
                   httpVars, connVars, concVars>>

GetPersonById ==
    \E id \in Ids :
        /\ last' = Called("get_person_by_id", Args(id, <<>>, 0, ""),
                          get_person_by_id(table, seq, id))
        /\ UNCHANGED <<storeVars, nSeeded, nCreated, nDeleted, nRestarts,
                       httpVars, connVars, concVars>>

GetPersonByName ==
    \E name \in Names :
        /\ last' = Called("get_person_by_name", Args(0, name, 0, ""),
                          get_person_by_name(table, seq, name))
        /\ UNCHANGED <<storeVars, nSeeded, nCreated, nDeleted, nRestarts,
                       httpVars, connVars, concVars>>

CreatePerson ==
    \E p \in Payloads :
        /\ seq < MaxSeq
        /\ \E r \in {create_person(table, seq, p.name, p.age, p.gender)} :
              /\ table' = r.table
              /\ seq' = r.seq
              /\ last' = Called("create_person",
                                Args(0, p.name, p.age, p.gender), r)
              /\ nCreated' = nCreated + r.rowcount
        /\ UNCHANGED <<nSeeded, nDeleted, nRestarts,
                       httpVars, connVars, concVars>>

UpdatePerson ==
    \E id \in Ids, p \in Payloads :
        /\ \E r \in {update_person(table, seq, id, p.name, p.age, p.gender)} :
              /\ table' = r.table
              /\ seq' = r.seq
              /\ last' = Called("update_person",
                                Args(id, p.name, p.age, p.gender), r)
        /\ UNCHANGED <<nSeeded, nCreated, nDeleted, nRestarts,
                       httpVars, connVars, concVars>>

DeletePerson ==
    \E id \in Ids :
        /\ \E r \in {delete_person(table, seq, id)} :
              /\ table' = r.table
              /\ seq' = r.seq
              /\ last' = Called("delete_person", Args(id, <<>>, 0, ""), r)
              /\ nDeleted' = nDeleted + r.rowcount
        /\ UNCHANGED <<nSeeded, nCreated, nRestarts,
                       httpVars, connVars, concVars>>

Next ==
    \/ InitDb
    \/ GetAllPersons
    \/ GetPersonById
    \/ GetPersonByName
    \/ CreatePerson
    \/ UpdatePerson
    \/ DeletePerson

Spec == Init /\ [][Next]_vars

-----------------------------------------------------------------------------
(* Text: str.lower(), the in operator on strings, int() of a path segment *)

UpperCase == <<"A","B","C","D","E","F","G","H","I","J","K","L","M",
               "N","O","P","Q","R","S","T","U","V","W","X","Y","Z">>
LowerCase == <<"a","b","c","d","e","f","g","h","i","j","k","l","m",
               "n","o","p","q","r","s","t","u","v","w","x","y","z">>

lower_char(c) ==
    IF \E i \in 1..Len(UpperCase) : UpperCase[i] = c
    THEN LowerCase[CHOOSE i \in 1..Len(UpperCase) : UpperCase[i] = c]
    ELSE c

\* str.lower()
lower(str) == [i \in 1..Len(str) |-> lower_char(str[i])]

\* needle in hay, on strings: hay holds needle as a contiguous run.
contains(needle, hay) ==
    \E k \in 0..(Len(hay) - Len(needle)) :
        SubSeq(hay, k + 1, k + Len(needle)) = needle

DigitChars == <<"0","1","2","3","4","5","6","7","8","9">>

IsDigit(c) == \E i \in 1..Len(DigitChars) : DigitChars[i] = c

DigitValue(c) == (CHOOSE i \in 1..Len(DigitChars) : DigitChars[i] = c) - 1

\* Whether the text of a path parameter is an integer (person_id: int).
IsInt(seg) == Len(seg) > 0 /\ \A i \in 1..Len(seg) : IsDigit(seg[i])

RECURSIVE ParseInt(_)
ParseInt(seg) ==
    IF seg = <<>> THEN 0
    ELSE 10 * ParseInt(SubSeq(seg, 1, Len(seg) - 1))
            + DigitValue(seg[Len(seg)])

RECURSIVE IntText(_)
\* The decimal text of an id, as a client writes it into a path.
IntText(n) ==
    IF n < 10 THEN <<DigitChars[n + 1]>>
    ELSE IntText(n \div 10) \o <<DigitChars[(n % 10) + 1]>>

-----------------------------------------------------------------------------
(* api.py: the handlers.  A reply's body is a record; an age that may be    *)
(* None (oldest_person, youngest_person) is <<age>> or None.                *)

PersonDict(p) == [id |-> p[1], name |-> p[2], age |-> p[3], gender |-> p[4]]

\* A List[Person] body.
PersonDicts(rows) ==
    [persons |-> [i \in 1..Len(rows) |-> PersonDict(rows[i])]]

Reply(t, s, handler, status, body) ==
    [table |-> t, seq |-> s, handler |-> handler, status |-> status,
     body |-> body]

\* raise HTTPException(status_code=404, detail="Person not found")
NotFound(t, s, handler) ==
    Reply(t, s, handler, 404, [detail |-> "Person not found"])

\* An exception no handler catches: the framework answers 500.
ServerError(t, s, handler, exc) ==
    Reply(t, s, handler, 500, [detail |-> exc])

read_root(t, s) ==
    Reply(t, s, "read_root", 200,
          [message |-> "Welcome to the PostgreSQL Person API",
           status |-> "running"])

api_get_all_persons(t, s) ==
    LET persons == get_all_persons(t, s).ret
    IN Reply(t, s, "get_all_persons", 200, PersonDicts(persons))

get_person(t, s, person_id) ==
    LET person == get_person_by_id(t, s, person_id).ret
    IN IF person = None
       THEN NotFound(t, s, "get_person")
       ELSE Reply(t, s, "get_person", 200, PersonDict(person))

search_persons(t, s, name) ==
    IF name # None
    THEN LET all_persons == get_all_persons(t, s).ret
             Matches(p) == contains(lower(name), lower(p[2]))
             matching_persons == SelectSeq(all_persons, Matches)
         IN Reply(t, s, "search_persons", 200, PersonDicts(matching_persons))
    ELSE LET all_persons == get_all_persons(t, s).ret
         IN Reply(t, s, "search_persons", 200, PersonDicts(all_persons))

api_create_person(t, s, person) ==
    LET c == create_person(t, s, person.name, person.age, person.gender)
    IN IF c.err # "none"
       THEN ServerError(c.table, c.seq, "create_person", c.err)
       ELSE LET created_person ==
                    get_person_by_id(c.table, c.seq, c.ret).ret
            IN IF created_person = None
               THEN ServerError(c.table, c.seq, "create_person", "TypeError")
               ELSE Reply(c.table, c.seq, "create_person", 200,
                          PersonDict(created_person))

api_update_person(t, s, person_id, person) ==
    LET existing_person == get_person_by_id(t, s, person_id).ret
    IN IF existing_person = None
       THEN NotFound(t, s, "update_person")
       ELSE LET u == update_person(t, s, person_id, person.name,
                                   person.age, person.gender)
                updated_person ==
                    get_person_by_id(u.table, u.seq, person_id).ret
            IN IF updated_person = None
               THEN ServerError(u.table, u.seq, "update_person", "TypeError")
               ELSE Reply(u.table, u.seq, "update_person", 200,
                          PersonDict(updated_person))

DeletedMessage(person_id) ==
    [message |-> "Person with ID {person_id} has been deleted",
     person_id |-> person_id]

\* delete_person without the existence check before the DELETE.
api_delete_person_unchecked(t, s, person_id) ==
    LET d == delete_person(t, s, person_id)
    IN Reply(d.table, d.seq, "delete_person", 200, DeletedMessage(person_id))

api_delete_person(t, s, person_id) ==
    LET existing_person == get_person_by_id(t, s, person_id).ret
    IN IF existing_person = None
       THEN NotFound(t, s, "delete_person")
       ELSE LET d == delete_person(t, s, person_id)
            IN Reply(d.table, d.seq, "delete_person", 200,
                     DeletedMessage(person_id))

health_check(t, s) ==
    LET r == get_all_persons(t, s)
    IN IF r.err = "none"
       THEN Reply(t, s, "health_check", 200,
                  [status |-> "healthy", database |-> "connected",
                   person_count |-> Len(r.ret)])
       ELSE Reply(t, s, "health_check", 503,
                  [detail |-> "Database connection failed"])

\* The timestamp of the reply is left out.
test_endpoint(t, s) ==
    Reply(t, s, "test_endpoint", 200,
          [message |-> "API is working correctly!"])

RECURSIVE GenderCounts(_, _)
\* The loop of get_stats over persons, for gender_counts.
GenderCounts(persons, gender_counts) ==
    IF persons = <<>> THEN gender_counts
    ELSE LET gender == Head(persons)[4]
             seen == IF gender \in DOMAIN gender_counts
                     THEN gender_counts[gender] ELSE 0
         IN GenderCounts(Tail(persons),
                [g \in (DOMAIN gender_counts) \cup {gender} |->
                    IF g = gender THEN seen + 1 ELSE gender_counts[g]])

RECURSIVE AgeSum(_, _)
\* The loop of get_stats over persons, for age_sum.
AgeSum(persons, age_sum) ==
    IF persons = <<>> THEN age_sum
    ELSE AgeSum(Tail(persons), age_sum + Head(persons)[3])

\* round(num / den, 2), in hundredths: the nearest hundredth, a tie going to
\* the even one.  num >= 0, den > 0.
Round2(num, den) ==
    LET q == (100 * num) \div den
        r == (100 * num) % den
    IN IF 2 * r < den THEN q
       ELSE IF 2 * r > den THEN q + 1
       ELSE IF q % 2 = 0 THEN q ELSE q + 1

\* get_stats with // where the source has /.
Average_floor(age_sum, n) == IF n > 0 THEN 100 * (age_sum \div n) ELSE 0

\* avg_age = age_sum / len(persons) if persons else 0, then round(avg_age, 2).
Average(age_sum, n) == IF n > 0 THEN Round2(age_sum, n) ELSE 0

Ages(persons) == {persons[i][3] : i \in 1..Len(persons)}

Max(S) == CHOOSE x \in S : \A y \in S : y <= x

Min(S) == CHOOSE x \in S : \A y \in S : x <= y

EmptyDict == [g \in {} |-> 0]

get_stats(t, s) ==
    LET persons == get_all_persons(t, s).ret
    IN Reply(t, s, "get_stats", 200,
          [total_persons |-> Len(persons),
           gender_distribution |-> GenderCounts(persons, EmptyDict),
           average_age |-> Average(AgeSum(persons, 0), Len(persons)),
           oldest_person |-> IF persons # <<>> THEN <<Max(Ages(persons))>>
                             ELSE None,
           youngest_person |-> IF persons # <<>> THEN <<Min(Ages(persons))>>
                               ELSE None])

-----------------------------------------------------------------------------
(* api.py: the route table, in the order the decorators register the routes *)

Lit(text) == [param |-> FALSE, text |-> text]
Param == [param |-> TRUE, text |-> <<>>]

SegPersons == <<"p","e","r","s","o","n","s">>
SegSearch  == <<"s","e","a","r","c","h">>
SegHealth  == <<"h","e","a","l","t","h">>
SegTest    == <<"t","e","s","t">>
SegStats   == <<"s","t","a","t","s">>

Routes ==
    << [method |-> "GET",    path |-> <<Lit(<<>>)>>,  handler |-> "read_root"],
       [method |-> "GET",    path |-> <<Lit(SegPersons), Lit(<<>>)>>,
                                                handler |-> "get_all_persons"],
       [method |-> "GET",    path |-> <<Lit(SegPersons), Param>>,
                                                handler |-> "get_person"],
       [method |-> "GET",    path |-> <<Lit(SegPersons), Lit(SegSearch)>>,
                                                handler |-> "search_persons"],
       [method |-> "POST",   path |-> <<Lit(SegPersons), Lit(<<>>)>>,
                                                handler |-> "create_person"],
       [method |-> "PUT",    path |-> <<Lit(SegPersons), Param>>,
                                                handler |-> "update_person"],
       [method |-> "DELETE", path |-> <<Lit(SegPersons), Param>>,
                                                handler |-> "delete_person"],
       [method |-> "GET",    path |-> <<Lit(SegHealth)>>,
                                                handler |-> "health_check"],
       [method |-> "GET",    path |-> <<Lit(SegTest)>>,
                                                handler |-> "test_endpoint"],
       [method |-> "GET",    path |-> <<Lit(SegStats)>>,
                                                handler |-> "get_stats"] >>

\* A path matches a route's pattern segment by segment; a parameter takes
\* any non-empty segment.
PathMatches(pattern, path) ==
    /\ Len(pattern) = Len(path)
    /\ \A i \in 1..Len(pattern) :
          IF pattern[i].param THEN path[i] # <<>>
          ELSE path[i] = pattern[i].text

RouteMatches(route, r) ==
    route.method = r.method /\ PathMatches(route.path, r.path)

\* The request goes to the first route, in declaration order, that matches.
Dispatch(r) ==
    IF \E i \in 1..Len(Routes) : RouteMatches(Routes[i], r)
    THEN Routes[CHOOSE i \in 1..Len(Routes) :
                  /\ RouteMatches(Routes[i], r)
                  /\ \A j \in 1..(i - 1) : ~RouteMatches(Routes[j], r)].handler
    ELSE "no_route"

\* The name query parameter of search_persons (name: str = None): the
\* query holds no name, or one.
QueryName(r) == IF r.query = <<>> THEN None ELSE r.query[1]

\* The handler runs once its typed parameters validate: person_id: int is
\* read from the path's second segment, and a segment that is no integer is
\* answered 422 before the handler body runs.
Serve(t, s, r) ==
    LET handler == Dispatch(r)
    IN CASE handler = "read_root" -> read_root(t, s)
         [] handler = "get_all_persons" -> api_get_all_persons(t, s)
         [] handler = "search_persons" -> search_persons(t, s, QueryName(r))
         [] handler = "create_person" -> api_create_person(t, s, r.body[1])
         [] handler = "health_check" -> health_check(t, s)
         [] handler = "test_endpoint" -> test_endpoint(t, s)
         [] handler = "get_stats" -> get_stats(t, s)
         [] handler \in {"get_person", "update_person", "delete_person"} ->
              IF ~IsInt(r.path[2])
              THEN Reply(t, s, handler, 422, [detail |-> "int_parsing"])
              ELSE LET person_id == ParseInt(r.path[2])
                   IN IF handler = "get_person"
                      THEN get_person(t, s, person_id)
                      ELSE IF handler = "update_person"
                      THEN api_update_person(t, s, person_id, r.body[1])
                      ELSE api_delete_person(t, s, person_id)
         [] OTHER -> Reply(t, s, "no_route", 404, [detail |-> "Not Found"])

-----------------------------------------------------------------------------
(* SpecHttp: requests served one at a time *)

Request(method, path, query, body) ==
    [method |-> method, path |-> path, query |-> query, body |-> body]

PersonPath(id) == <<SegPersons, IntText(id)>>

SearchPath == <<SegPersons, SegSearch>>

\* Ids the HTTP clients ask for: the sample rows', the sequence's, and 999.
HttpIds == SampleIds \cup (1..MaxSeq) \cup {999}

\* Values of ?name= : empty, matching two sample rows in either case,
\* matching none.
SearchNames == { <<>>, <<"j","o","h">>, <<"O","H","N">>, <<"z","z">> }

\* A request's body is <<>> (none) or <<person>>.
Requests ==
    {Request("GET", <<<<>>>>, <<>>, <<>>),
     Request("GET", <<SegPersons, <<>>>>, <<>>, <<>>),
     Request("GET", <<SegHealth>>, <<>>, <<>>),
     Request("GET", <<SegTest>>, <<>>, <<>>),
     Request("GET", <<SegStats>>, <<>>, <<>>),
     Request("GET", SearchPath, <<>>, <<>>),
     Request("GET", <<SegSearch>>, <<>>, <<>>)}
    \cup {Request("GET", SearchPath, <<n>>, <<>>) : n \in SearchNames}
    \cup {Request("GET", PersonPath(id), <<>>, <<>>) : id \in HttpIds}
    \cup {Request("DELETE", PersonPath(id), <<>>, <<>>) : id \in HttpIds}
    \cup {Request("PUT", PersonPath(id), <<>>, <<p>>) :
             id \in HttpIds, p \in Payloads}
    \cup {Request("POST", <<SegPersons, <<>>>>, <<>>, <<p>>) : p \in Payloads}

IdleRepo ==
    /\ last = NoCall
    /\ nSeeded = 0 /\ nCreated = 0 /\ nDeleted = 0 /\ nRestarts = 0

InitHttp == InitStore /\ IdleRepo /\ IdleHttp /\ IdleConn /\ IdleConc

HttpRequest ==
    \E r \in Requests :
        /\ Dispatch(r) = "create_person" => seq < MaxSeq
        /\ \E reply \in {Serve(table, seq, r)} :
              /\ table' = reply.table
              /\ seq' = reply.seq
              /\ req' = r
              /\ resp' = [status |-> reply.status, handler |-> reply.handler,
                          body |-> reply.body]
        /\ UNCHANGED <<repoVars, connVars, concVars>>

NextHttp == HttpRequest

SpecHttp == InitHttp /\ [][NextHttp]_vars

-----------------------------------------------------------------------------
(* SpecConn: get_db_connection, stepped through one operation at a time     *)
(*                                                                         *)
(* mgr is the running `with get_db_connection() as conn:` block:           *)
(*   pc       where it stands: idle, connect, execute, commit, except,     *)
(*            finally, done                                                *)
(*   conn     the local conn: 0 is None, else the connection's number      *)
(*   thrown   the exception as it was raised, "none" when there was none   *)
(*   exc      the exception in flight, "none" when there is none           *)
(*   raised   what the block raised to its caller                          *)
(*   log      what was done: connect, connect_failed, execute, commit,     *)
(*            rollback, close                                              *)
(*   pending  the table as the open transaction sees it                    *)
(*   fault    what goes wrong in this run                                  *)
(* conns[c] is "open" or "closed" for every connection ever made.          *)
(***************************************************************************)

Faults == {"none", "connect_fails", "store_error", "other_error"}

\* psycopg2.Error and its subclasses: what `except psycopg2.Error` catches.
IsStoreError(exc) ==
    exc \in {"OperationalError", "DatabaseError", "UniqueViolation"}

Mutating == {"init_db", "create_person", "update_person", "delete_person"}

\* The statement of operation op, run on table t with the sequence at s.
Statement(op, a, t, s) ==
    CASE op = "init_db" -> init_db(t, s)
      [] op = "get_all_persons" -> get_all_persons(t, s)
      [] op = "get_person_by_id" -> get_person_by_id(t, s, a.person_id)
      [] op = "get_person_by_name" -> get_person_by_name(t, s, a.name)
      [] op = "create_person" -> create_person(t, s, a.name, a.age, a.gender)
      [] op = "update_person" ->
            update_person(t, s, a.person_id, a.name, a.age, a.gender)
      [] op = "delete_person" -> delete_person(t, s, a.person_id)

\* conn = None; conn = psycopg2.connect(...): a new connection, or the
\* connect call raises and conn stays None.
ConnectStep(m, cs) ==
    IF m.fault = "connect_fails"
    THEN [mgr |-> [m EXCEPT !.pc = "except", !.thrown = "OperationalError",
                            !.exc = "OperationalError",
                            !.log = Append(@, "connect_failed")],
          conns |-> cs]
    ELSE [mgr |-> [m EXCEPT !.pc = "execute", !.conn = Len(cs) + 1,
                            !.log = Append(@, "connect")],
          conns |-> Append(cs, "open")]

\* The except clause swallowing the error: rollback, and no raise.
ExceptClause_swallow(m) ==
    IF IsStoreError(m.exc)
    THEN [m EXCEPT !.pc = "finally", !.exc = "none",
                   !.log = IF m.conn # 0 THEN Append(@, "rollback") ELSE @]
    ELSE [m EXCEPT !.pc = "finally"]

\* except psycopg2.Error as e: if conn: conn.rollback(); raise e.
\* Any other exception passes the clause by.
ExceptClause(m) ==
    IF IsStoreError(m.exc)
    THEN [m EXCEPT !.pc = "finally",
                   !.log = IF m.conn # 0 THEN Append(@, "rollback") ELSE @]
    ELSE [m EXCEPT !.pc = "finally"]

\* The close written after the yield instead of in a finally clause: it is
\* skipped when an exception is in flight.
FinallyClause_skipped_on_error(m, cs) ==
    IF m.conn # 0 /\ m.exc = "none"
    THEN [mgr |-> [m EXCEPT !.pc = "done", !.raised = m.exc,
                            !.log = Append(@, "close")],
          conns |-> [cs EXCEPT ![m.conn] = "closed"]]
    ELSE [mgr |-> [m EXCEPT !.pc = "done", !.raised = m.exc], conns |-> cs]

\* finally: if conn: conn.close().  Then the exception in flight, if any,
\* goes on to the caller.
FinallyClause(m, cs) ==
    IF m.conn # 0
    THEN [mgr |-> [m EXCEPT !.pc = "done", !.raised = m.exc,
                            !.log = Append(@, "close")],
          conns |-> [cs EXCEPT ![m.conn] = "closed"]]
    ELSE [mgr |-> [m EXCEPT !.pc = "done", !.raised = m.exc], conns |-> cs]

\* The operations and arguments run through the manager.
ConnCalls ==
    {[op |-> "init_db", args |-> NoArgs],
     [op |-> "get_all_persons", args |-> NoArgs]}
    \cup {[op |-> "get_person_by_id", args |-> Args(id, <<>>, 0, "")] :
             id \in Ids}
    \cup {[op |-> "get_person_by_name", args |-> Args(0, n, 0, "")] :
             n \in Names}
    \cup {[op |-> "create_person", args |-> Args(0, p.name, p.age, p.gender)] :
             p \in Payloads}
    \cup {[op |-> "update_person",
           args |-> Args(id, p.name, p.age, p.gender)] :
             id \in Ids, p \in Payloads}
    \cup {[op |-> "delete_person", args |-> Args(id, <<>>, 0, "")] :
             id \in Ids}

InitConn == InitStore /\ IdleRepo /\ IdleHttp /\ IdleConn /\ IdleConc

\* An operation is called and enters its with block.
ConnCall ==
    \E c \in ConnCalls, f \in Faults :
        /\ mgr.pc = "idle"
        /\ nCalls < MaxCalls
        /\ c.op = "create_person" => seq < MaxSeq
        /\ mgr' = [IdleMgr EXCEPT !.pc = "connect", !.op = c.op,
                                  !.args = c.args, !.fault = f,
                                  !.connsBefore = Len(conns),
                                  !.tableBefore = table]
        /\ nCalls' = nCalls + 1
        /\ UNCHANGED <<storeVars, conns, repoVars, httpVars, concVars>>

ConnConnect ==
    /\ mgr.pc = "connect"
    /\ \E r \in {ConnectStep(mgr, conns)} :
          /\ mgr' = [r.mgr EXCEPT !.pending = table]
          /\ conns' = r.conns
    /\ UNCHANGED <<storeVars, nCalls, repoVars, httpVars, concVars>>

\* cur.execute(...) and the fetch: the statement runs inside the connection's
\* transaction.  The sequence moves at once; the rows wait for the commit.
\* A store error (the statement's own or the fault's) or, after the
\* statement, an error of another kind leaves the body here.
ConnExecute ==
    /\ mgr.pc = "execute"
    /\ \E r \in {Statement(mgr.op, mgr.args, mgr.pending, seq)} :
          LET exc == IF mgr.fault = "store_error" THEN "DatabaseError"
                     ELSE IF r.err # "none" THEN r.err
                     ELSE IF mgr.fault = "other_error" THEN "TypeError"
                     ELSE "none"
          IN /\ mgr' = [mgr EXCEPT
                          !.log = Append(@, "execute"),
                          !.thrown = exc,
                          !.exc = exc,
                          !.pending = IF mgr.fault = "store_error"
                                      THEN @ ELSE r.table,
                          !.pc = IF exc # "none" THEN "except"
                                 ELSE IF mgr.op \in Mutating THEN "commit"
                                 ELSE "finally"]
             /\ seq' = IF mgr.fault = "store_error" THEN seq ELSE r.seq
    /\ UNCHANGED <<table, conns, nCalls, repoVars, httpVars, concVars>>

\* conn.commit()
ConnCommit ==
    /\ mgr.pc = "commit"
    /\ table' = mgr.pending
    /\ mgr' = [mgr EXCEPT !.pc = "finally", !.log = Append(@, "commit")]
    /\ UNCHANGED <<seq, conns, nCalls, repoVars, httpVars, concVars>>

ConnExcept ==
    /\ mgr.pc = "except"
    /\ mgr' = ExceptClause(mgr)
    /\ UNCHANGED <<storeVars, conns, nCalls, repoVars, httpVars, concVars>>

ConnFinally ==
    /\ mgr.pc = "finally"
    /\ \E r \in {FinallyClause(mgr, conns)} :
          /\ mgr' = r.mgr
          /\ conns' = r.conns
    /\ UNCHANGED <<storeVars, nCalls, repoVars, httpVars, concVars>>

\* The caller goes on.
ConnReturn ==
    /\ mgr.pc = "done"
    /\ mgr' = IdleMgr
    /\ UNCHANGED <<storeVars, conns, nCalls, repoVars, httpVars, concVars>>

NextConn ==
    \/ ConnCall
    \/ ConnConnect
    \/ ConnExecute
    \/ ConnCommit
    \/ ConnExcept
    \/ ConnFinally
    \/ ConnReturn

SpecConn == InitConn /\ [][NextConn]_vars

-----------------------------------------------------------------------------
(* SpecConc: the handlers of PUT, DELETE and POST run by concurrent workers. *)
(* Each repository call is one atomic committed statement; a handler is one *)
(* step per repository call, and other workers' steps fall in between.      *)
(*                                                                         *)
(* procs[p] is worker p: pc is the repository call it makes next; status    *)
(* and error are its reply (500 with the exception's name for an exception  *)
(* no handler catches); row is the row of a Person body; rowcount is the    *)
(* row count of its DELETE statement.                                       *)
(***************************************************************************)

ConcRequests ==
    {[method |-> "PUT", person_id |-> id, person |-> p] :
        id \in Ids, p \in Payloads}
    \cup {[method |-> "DELETE", person_id |-> id, person |-> NoPayload] :
            id \in Ids}
    \cup {[method |-> "POST", person_id |-> 0, person |-> p] : p \in Payloads}

FirstCall(method) ==
    CASE method = "PUT" -> "put_check"
      [] method = "DELETE" -> "delete_check"
      [] method = "POST" -> "post_create"

\* The POST requests whose INSERT is still to come.
PendingCreates ==
    Cardinality({p \in 1..NumProcs : procs[p].pc = "post_create"})

InitConc == InitStore /\ IdleRepo /\ IdleHttp /\ IdleConn /\ IdleConc

\* A request reaches worker p and its handler is entered.
ConcRequest(p) ==
    \E r \in ConcRequests :
        /\ procs[p].pc = "idle"
        /\ nReqs < MaxReqs
        /\ r.method = "POST" => seq + PendingCreates < MaxSeq
        /\ procs' = [procs EXCEPT ![p] =
                        [IdleProc EXCEPT !.pc = FirstCall(r.method),
                                         !.method = r.method,
                                         !.person_id = r.person_id,
                                         !.person = r.person]]
        /\ nReqs' = nReqs + 1
        /\ UNCHANGED <<storeVars, repoVars, httpVars, connVars>>

\* update_person: existing_person = database.get_person_by_id(person_id)
ConcPutCheck(p) ==
    /\ procs[p].pc = "put_check"
    /\ LET existing_person ==
               get_person_by_id(table, seq, procs[p].person_id).ret
       IN procs' = [procs EXCEPT ![p] =
                      IF existing_person = None
                      THEN [@ EXCEPT !.pc = "done", !.status = 404,
                                     !.error = "Person not found"]
                      ELSE [@ EXCEPT !.pc = "put_update"]]
    /\ UNCHANGED <<storeVars, nReqs, repoVars, httpVars, connVars>>

\* update_person: database.update_person(person_id, name, age, gender)
ConcPutUpdate(p) ==
    /\ procs[p].pc = "put_update"
    /\ \E u \in {update_person(table, seq, procs[p].person_id,
                               procs[p].person.name, procs[p].person.age,
                               procs[p].person.gender)} :
          /\ table' = u.table
          /\ seq' = u.seq
    /\ procs' = [procs EXCEPT ![p].pc = "put_read"]
    /\ UNCHANGED <<nReqs, repoVars, httpVars, connVars>>

\* update_person: updated_person = database.get_person_by_id(person_id) and
\* the body built from updated_person[0..3]; None[0] is a TypeError.
ConcPutRead(p) ==
    /\ procs[p].pc = "put_read"
    /\ LET updated_person ==
               get_person_by_id(table, seq, procs[p].person_id).ret
       IN procs' = [procs EXCEPT ![p] =
                      IF updated_person = None
                      THEN [@ EXCEPT !.pc = "done", !.status = 500,
                                     !.error = "TypeError"]
                      ELSE [@ EXCEPT !.pc = "done", !.status = 200,
                                     !.row = updated_person]]
    /\ UNCHANGED <<storeVars, nReqs, repoVars, httpVars, connVars>>

\* delete_person: existing_person = database.get_person_by_id(person_id)
ConcDeleteCheck(p) ==
    /\ procs[p].pc = "delete_check"
    /\ LET existing_person ==
               get_person_by_id(table, seq, procs[p].person_id).ret
       IN procs' = [procs EXCEPT ![p] =
                      IF existing_person = None
                      THEN [@ EXCEPT !.pc = "done", !.status = 404,
                                     !.error = "Person not found"]
                      ELSE [@ EXCEPT !.pc = "delete_delete"]]
    /\ UNCHANGED <<storeVars, nReqs, repoVars, httpVars, connVars>>

\* delete_person: database.delete_person(person_id), its result dropped, and
\* the confirmation message.
ConcDeleteDelete(p) ==
    /\ procs[p].pc = "delete_delete"
    /\ \E d \in {delete_person(table, seq, procs[p].person_id)} :
          /\ table' = d.table
          /\ seq' = d.seq
          /\ procs' = [procs EXCEPT ![p] =
                          [@ EXCEPT !.pc = "done", !.status = 200,
                                    !.rowcount = d.rowcount]]
    /\ UNCHANGED <<nReqs, repoVars, httpVars, connVars>>

\* create_person: person_id = database.create_person(name, age, gender)
ConcPostCreate(p) ==
    /\ procs[p].pc = "post_create"
    /\ \E c \in {create_person(table, seq, procs[p].person.name,
                               procs[p].person.age, procs[p].person.gender)} :
          /\ table' = c.table
          /\ seq' = c.seq
          /\ procs' = [procs EXCEPT ![p] =
                          IF c.err # "none"
                          THEN [@ EXCEPT !.pc = "done", !.status = 500,
                                         !.error = c.err]
                          ELSE [@ EXCEPT !.pc = "post_read",
                                         !.person_id = c.ret]]
    /\ UNCHANGED <<nReqs, repoVars, httpVars, connVars>>

\* create_person: created_person = database.get_person_by_id(person_id) and
\* the body built from created_person[0..3].
ConcPostRead(p) ==
    /\ procs[p].pc = "post_read"
    /\ LET created_person ==
               get_person_by_id(table, seq, procs[p].person_id).ret
       IN procs' = [procs EXCEPT ![p] =
                      IF created_person = None
                      THEN [@ EXCEPT !.pc = "done", !.status = 500,
                                     !.error = "TypeError"]
                      ELSE [@ EXCEPT !.pc = "done", !.status = 200,
                                     !.row = created_person]]
    /\ UNCHANGED <<storeVars, nReqs, repoVars, httpVars, connVars>>

\* The reply is sent and the worker is free again.
ConcRespond(p) ==
    /\ procs[p].pc = "done"
    /\ procs' = [procs EXCEPT ![p] = IdleProc]
    /\ UNCHANGED <<storeVars, nReqs, repoVars, httpVars, connVars>>

NextConc ==
    \E p \in 1..NumProcs :
        \/ ConcRequest(p)
        \/ ConcPutCheck(p)
        \/ ConcPutUpdate(p)
        \/ ConcPutRead(p)
        \/ ConcDeleteCheck(p)
        \/ ConcDeleteDelete(p)
        \/ ConcPostCreate(p)
        \/ ConcPostRead(p)
        \/ ConcRespond(p)

SpecConc == InitConc /\ [][NextConc]_vars

-----------------------------------------------------------------------------
(* Claims on Spec *)

RowsOf(t) == {t[i] : i \in 1..Len(t)}

\* C1 (as claimed): every create_person call succeeds, returns an id that no
\* row held and that no earlier create_person returned (every id handed out
\* before is at most seq), and get_person_by_id of it returns
\* (id, name, age, gender).
C1_CreateAlwaysSucceedsFresh ==
    [][last'.op = "create_person" =>
          /\ last'.err = "none"
          /\ ~HasId(table, last'.id)
          /\ last'.id > seq
          /\ get_person_by_id(table', seq', last'.id).ret
                = <<last'.id, last'.args.name, last'.args.age,
                    last'.args.gender>>]_vars

\* C5: update_person of a present id makes get_person_by_id return
\* (id, name, age, gender), keeps every row's id and every other row; of an
\* absent id it leaves the table as it was.
C5_UpdateReflectedOthersKept ==
    [][last'.op = "update_person" =>
          LET id == last'.args.person_id
              row == <<id, last'.args.name, last'.args.age,
                       last'.args.gender>>
          IN IF HasId(table, id)
             THEN /\ get_person_by_id(table', seq', id).ret = row
                  /\ Len(table') = Len(table)
                  /\ \A i \in 1..Len(table) :
                        /\ table'[i][1] = table[i][1]
                        /\ table[i][1] # id => table'[i] = table[i]
             ELSE table' = table]_vars

C5_Witness ==
    /\ last.op = "update_person"
    /\ last.rowcount = 1
    /\ get_person_by_id(table, seq, last.args.person_id).ret
          = <<last.args.person_id, last.args.name, last.args.age,
              last.args.gender>>
    /\ Len(table) > 1

\* C6: after delete_person(id), get_person_by_id(id) returns None; the rows
\* left are exactly the rows that held another id, and the table is unchanged
\* when no row held id.
C6_DeleteRemovesOnlyThatRow ==
    [][last'.op = "delete_person" =>
          LET id == last'.args.person_id
          IN /\ get_person_by_id(table', seq', id).ret = None
             /\ RowsOf(table') = {r \in RowsOf(table) : r[1] # id}
             /\ Len(table') = Len(table) - (IF HasId(table, id) THEN 1 ELSE 0)
             /\ ~HasId(table, id) => table' = table]_vars

C6_Witness ==
    /\ last.op = "delete_person"
    /\ last.rowcount = 1
    /\ ~HasId(table, last.args.person_id)
    /\ Len(table) > 0

\* C7 (as claimed): the length of get_all_persons() is the four seed rows
\* plus the successful create_person calls minus the rows delete_person
\* removed, restarts included.
C7_LengthIsSeedPlusCreatedMinusDeleted ==
    Len(get_all_persons(table, seq).ret)
        = Len(SampleRows) + nCreated - nDeleted

\* C7 (amended): the length of get_all_persons() is the rows inserted (the
\* seed rows every init_db run inserted, a deleted seed row being inserted
\* again by the next run, plus the successful create_person calls) minus the
\* rows delete_person removed.
C7_LengthIsInsertedMinusDeleted ==
    Len(get_all_persons(table, seq).ret) = nSeeded + nCreated - nDeleted

C7_Witness ==
    /\ nRestarts > 0
    /\ nSeeded > Len(SampleRows)
    /\ nCreated > 0
    /\ nDeleted > 1
    /\ Len(table) > 0

-----------------------------------------------------------------------------
(* Claims on SpecHttp *)

\* The rows a search for name is to return: all of them for an empty or
\* absent name, else those whose name holds it, case ignored.
SearchResult(t, name) ==
    LET Holds(p) == name = <<>> \/ contains(lower(name), lower(p[2]))
    IN PersonDicts(SelectSeq(t, Holds))

\* C4 (as claimed): GET /persons/search, sent through the route table, is
\* answered by search_persons with the rows whose name holds the name
\* parameter, case ignored (all rows when it is empty or absent), and never
\* with a 404 or a validation error.
C4_SearchRouteAnswersSearch ==
    (req.method = "GET" /\ req.path = SearchPath) =>
        /\ resp.handler = "search_persons"
        /\ resp.status = 200
        /\ resp.body = SearchResult(table, QueryName(req))

\* C8: GET, PUT and DELETE /persons/{id} of an id no row holds answer 404
\* and leave the table as it was, 999 on the seeded table included; such a
\* DELETE never answers with the deletion message.
C8_AbsentIdIs404 ==
    [][\A id \in HttpIds :
          (/\ req'.method \in {"GET", "PUT", "DELETE"}
           /\ req'.path = PersonPath(id)
           /\ ~HasId(table, id))
          => /\ resp'.status = 404
             /\ resp'.body = [detail |-> "Person not found"]
             /\ table' = table
             /\ seq' = seq]_vars

C8_Witness ==
    /\ req.method = "DELETE"
    /\ req.path = PersonPath(999)
    /\ resp.status = 404
    /\ table = SampleRows

RECURSIVE SumOf(_, _)
\* The sum of f over the set S.
SumOf(f, S) ==
    IF S = {} THEN 0
    ELSE LET x == CHOOSE y \in S : TRUE IN f[x] + SumOf(f, S \ {x})

AgeAt(t) == [i \in 1..Len(t) |-> t[i][3]]

\* C9: /stats reports the number of rows, for each gender code the number
\* of rows with it (the counts adding up to the total), the average age to
\* the nearest hundredth (0 for no rows), and the greatest and the least age
\* (None for no rows); on the four seeded rows: 4, {M: 2, F: 2}, 29.5, 35, 25.
C9_StatsOfTable ==
    resp.handler = "get_stats" =>
        LET b == resp.body
            n == Len(table)
            genders == {table[i][4] : i \in 1..n}
            ages == {table[i][3] : i \in 1..n}
            total_age == SumOf(AgeAt(table), 1..n)
        IN /\ b.total_persons = n
           /\ DOMAIN b.gender_distribution = genders
           /\ \A g \in genders :
                 b.gender_distribution[g]
                    = Cardinality({i \in 1..n : table[i][4] = g})
           /\ SumOf(b.gender_distribution, genders) = n
           /\ n = 0 => /\ b.average_age = 0
                       /\ b.oldest_person = None
                       /\ b.youngest_person = None
           /\ n > 0 => /\ 2 * (100 * total_age - b.average_age * n) <= n
                       /\ 2 * (b.average_age * n - 100 * total_age) <= n
                       /\ Len(b.oldest_person) = 1
                       /\ b.oldest_person[1] \in ages
                       /\ \A a \in ages : a <= b.oldest_person[1]
                       /\ Len(b.youngest_person) = 1
                       /\ b.youngest_person[1] \in ages
                       /\ \A a \in ages : b.youngest_person[1] <= a
           /\ RowsOf(table) = RowsOf(SampleRows) =>
                 /\ b.total_persons = 4
                 /\ b.gender_distribution = [g \in {"M", "F"} |-> 2]
                 /\ b.average_age = 2950
                 /\ b.oldest_person = <<35>>
                 /\ b.youngest_person = <<25>>

\* /stats asked of a table whose average age is no whole number of
\* hundredths and that holds a gender code other than M and F.
C9_Witness ==
    /\ resp.handler = "get_stats"
    /\ resp.status = 200
    /\ Len(table) > 0
    /\ (100 * SumOf(AgeAt(table), 1..Len(table))) % Len(table) # 0
    /\ \E i \in 1..Len(table) : table[i][4] = "X"

-----------------------------------------------------------------------------
(* Claims on SpecConn *)

Count(log, event) == Cardinality({i \in 1..Len(log) : log[i] = event})

Precedes(log, a, b) ==
    \E i, j \in 1..Len(log) : i < j /\ log[i] = a /\ log[j] = b

\* C2: on every exit path of get_db_connection (connect fails, normal
\* return, store error, any other error) no connection the operation acquired
\* is open once it has finished; the operation made exactly one connect call,
\* and the connection it used was made by that call, not by an earlier one.
\* While an operation runs, the only open connection is its own.
C2_ClosedOnEveryPathOnePerCall ==
    /\ \A c \in 1..Len(conns) :
          conns[c] = "open" => c = mgr.conn /\ mgr.pc \notin {"idle", "done"}
    /\ mgr.pc = "done" =>
          /\ Count(mgr.log, "connect") + Count(mgr.log, "connect_failed") = 1
          /\ Len(conns) - mgr.connsBefore = Count(mgr.log, "connect")
          /\ mgr.conn # 0 =>
                /\ mgr.conn > mgr.connsBefore
                /\ conns[mgr.conn] = "closed"
                /\ Count(mgr.log, "close") = 1

\* A second or later operation has finished on an error that is not a store
\* error, and its connection is closed.
C2_Witness ==
    /\ mgr.pc = "done"
    /\ nCalls >= 2
    /\ mgr.thrown = "TypeError"
    /\ mgr.conn = Len(conns)
    /\ conns[mgr.conn] = "closed"

-----------------------------------------------------------------------------
(* Claims on SpecConc *)

\* C10 as stated, for the races it names: no PUT and no POST ends on the
\* TypeError of a read-back that found no row, and a DELETE that answers with
\* the confirmation message is one whose DELETE statement removed the row.
C10_NoLostReadBackDeleteRemoved ==
    \A p \in 1..NumProcs :
        procs[p].pc = "done" =>
            /\ procs[p].method \in {"PUT", "POST"} =>
                  procs[p].error # "TypeError"
            /\ (procs[p].method = "DELETE" /\ procs[p].status = 200) =>
                  procs[p].rowcount = 1

=============================================================================
